---- MODULE Spec2Model ----
(***************************************************************************)
(* The beamsplitter scanner (package parse): the lexer's rune helpers, its *)
(* state functions, the goroutine started by lex() and the consumer that   *)
(* takes items with nextItem and drain.                                    *)
(*                                                                         *)
(* Text is a sequence of bytes, each a string: an ASCII character is its   *)
(* own byte, and the letter U+00E9 is the two bytes 0xC3 0xA9.  Go offsets *)
(* are 0-based, so the byte at offset p is input[p + 1].                   *)
(***************************************************************************)
EXTENDS Integers, Sequences, FiniteSets, TLC

VARIABLES
    l,            \* the lexer struct: input, line, startLine, pos, start, atEOF
    items,        \* the channel l.items: items sent and not yet received
    closed,       \* close(l.items) has run
    pc,           \* scanner goroutine: "run", "emit", "errorf" (in a send), "done"
    state,        \* run()'s state variable / the point a state function resumes at
    pushed,       \* history: every item handed to a channel send, in order
    cpc,          \* consumer: "idle", "nextItem" (in the receive), "drain"
    received,     \* history: the items nextItem returned, in order
    discarded,    \* history: number of items drain took from the queue
    closedReads,  \* history: how many of them came from the closed, empty queue
    drained,      \* drain has returned
    call          \* the last helper call made directly on the lexer (SpecOps)

vars == <<l, items, closed, pc, state, pushed, cpc, received, discarded,
          closedReads, drained, call>>

----------------------------------------------------------------------------
(* Bounds of the model *)

MaxFrags == 4        \* fragments per top-level input text
MaxBlockFrags == 4   \* fragments following a namespace header
MaxHeaderFrags == 3  \* fragments following a namespace keyword
MaxOpsFrags == 3     \* fragments per input text of the helper-call specification
MaxCount == 2        \* largest count handed to backupMultiple directly
MaxClosedReads == 1  \* nextItem calls answered by the closed queue

----------------------------------------------------------------------------
(* itemType, the iota constants *)

itemError == 0
itemIdentifier == 8
itemEOF == 9
itemOpenBrace == 11
itemCloseBrace == 12
itemNamespace == 17
itemClass == 18
itemStruct == 21
itemEnum == 22

eof == "eof"         \* const eof = -1: no rune of any text

QueueCap == 0        \* make(chan item): an unbuffered channel

----------------------------------------------------------------------------
(* Strings as rune sequences *)

namespace == <<"n", "a", "m", "e", "s", "p", "a", "c", "e">>
struct == <<"s", "t", "r", "u", "c", "t">>
class == <<"c", "l", "a", "s", "s">>
enum == <<"e", "n", "u", "m">>

Letters == {"a", "b", "c", "d", "e", "f", "g", "h", "i", "j", "k", "l", "m",
            "n", "o", "p", "q", "r", "s", "t", "u", "v", "w", "x", "y", "z",
            "N", "S", "C", "E", "U+00E9"}
Digits == {"0", "1", "2", "3", "4", "5", "6", "7", "8", "9"}

IsLetter(r) == r \in Letters
IsDigit(r) == r \in Digits

\* strings.ContainsRune(valid, r); eof (-1) is no valid rune and is never found
ContainsRune(valid, r) == \E i \in 1..Len(valid) : valid[i] = r

\* Go's s[i:j]
Slice(s, i, j) == SubSeq(s, i + 1, j)

\* strings.Count(s, "\n")
RECURSIVE CountNewlines(_)
CountNewlines(s) ==
    IF s = <<>> THEN 0
    ELSE (IF Head(s) = "\n" THEN 1 ELSE 0) + CountNewlines(Tail(s))

isAlphaNumeric(r) == r = "_" \/ IsLetter(r) \/ IsDigit(r)

----------------------------------------------------------------------------
(* The lexer's helpers.  Each takes the lexer struct and returns the struct *)
(* after the call, with the result where the method has one.                *)

\* utf8: the two bytes of U+00E9, and the rune a broken encoding decodes to
Utf8Bytes == {"0xC3", "0xA9"}
RuneError == "U+FFFD"

\* utf8.DecodeRuneInString(s[p:]), for p < len(s)
DecodeRuneInString(s, p) ==
    IF s[p + 1] = "0xC3" /\ p + 2 <= Len(s) /\ s[p + 2] = "0xA9"
    THEN [r |-> "U+00E9", w |-> 2]
    ELSE IF s[p + 1] \in Utf8Bytes THEN [r |-> RuneError, w |-> 1]
    ELSE [r |-> s[p + 1], w |-> 1]

\* utf8.DecodeLastRuneInString(s[:p]), for p > 0
DecodeLastRuneInString(s, p) ==
    IF p >= 2 /\ s[p] = "0xA9" /\ s[p - 1] = "0xC3"
    THEN [r |-> "U+00E9", w |-> 2]
    ELSE IF s[p] \in Utf8Bytes THEN [r |-> RuneError, w |-> 1]
    ELSE [r |-> s[p], w |-> 1]

lexer_eof(lx) == lx.pos >= Len(lx.input)

next(lx) ==
    IF lx.pos >= Len(lx.input)
    THEN [r |-> eof, l |-> [lx EXCEPT !.atEOF = TRUE]]
    ELSE LET d == DecodeRuneInString(lx.input, lx.pos)
         IN [r |-> d.r,
             l |-> [lx EXCEPT !.pos = @ + d.w,
                              !.line = IF d.r = "\n" THEN @ + 1 ELSE @]]

backup_keepsLine(lx) ==
    IF ~lx.atEOF /\ lx.pos > 0
    THEN [lx EXCEPT !.pos = @ - DecodeLastRuneInString(lx.input, lx.pos).w]
    ELSE lx

backup(lx) ==
    IF ~lx.atEOF /\ lx.pos > 0
    THEN LET d == DecodeLastRuneInString(lx.input, lx.pos)
         IN [lx EXCEPT !.pos = @ - d.w,
                       !.line = IF d.r = "\n" THEN @ - 1 ELSE @]
    ELSE lx

peek(lx) == LET n == next(lx) IN [r |-> n.r, l |-> backup(n.l)]

RECURSIVE backupMultiple(_, _)
backupMultiple(lx, count) ==
    IF count <= 0 THEN lx ELSE backupMultiple(backup(lx), count - 1)

accept(lx, valid) ==
    LET n == next(lx)
    IN IF ContainsRune(valid, n.r) THEN [ok |-> TRUE, l |-> n.l]
       ELSE [ok |-> FALSE, l |-> backup(n.l)]

acceptAlphaNumeric(lx) ==
    LET n == next(lx)
    IN IF isAlphaNumeric(n.r) THEN [ok |-> TRUE, l |-> n.l]
       ELSE [ok |-> FALSE, l |-> backup(n.l)]

RECURSIVE acceptRun(_, _)
acceptRun(lx, valid) ==
    LET n == next(lx)
    IN IF ContainsRune(valid, n.r) THEN acceptRun(n.l, valid) ELSE backup(n.l)

acceptSpace(lx) == accept(lx, <<" ", "\t", "\n">>)

acceptRune(lx, expected) ==
    LET n == next(lx)
    IN IF n.r = expected THEN [ok |-> TRUE, l |-> n.l]
       ELSE [ok |-> FALSE, l |-> backup(n.l)]

\* the loop of acceptString from index i (0-based) of expectedString
RECURSIVE acceptStringFrom(_, _, _)
acceptStringFrom(lx, expectedString, i) ==
    IF i >= Len(expectedString) THEN [ok |-> TRUE, l |-> lx]
    ELSE LET n == next(lx)
         IN IF n.r # expectedString[i + 1]
            THEN [ok |-> FALSE, l |-> backupMultiple(n.l, i)]
            ELSE acceptStringFrom(n.l, expectedString, i + 1)

acceptString(lx, expectedString) == acceptStringFrom(lx, expectedString, 0)

\* for isAlphaNumeric(lex.next()) {}
RECURSIVE skipAlphaNumeric(_)
skipAlphaNumeric(lx) ==
    LET n == next(lx)
    IN IF isAlphaNumeric(n.r) THEN skipAlphaNumeric(n.l) ELSE n.l

acceptIdentifier(lx) ==
    LET n == next(lx)
    IN IF n.r # "_" /\ ~IsLetter(n.r) THEN [ok |-> FALSE, l |-> backup(n.l)]
       ELSE [ok |-> TRUE, l |-> backup(skipAlphaNumeric(n.l))]

acceptKeyword(lx, keyword) ==
    LET start == lx.pos
        s == acceptString(lx, keyword)
    IN IF ~s.ok THEN [ok |-> FALSE, l |-> s.l]
       ELSE IF lexer_eof(s.l) THEN [ok |-> TRUE, l |-> s.l]
       ELSE LET a == acceptAlphaNumeric(s.l)
            IN IF a.ok
               THEN [ok |-> FALSE, l |-> backupMultiple(a.l, a.l.pos - start)]
               ELSE [ok |-> TRUE, l |-> a.l]

\* the lexer struct lex() builds
lex(input) ==
    [input |-> input, line |-> 1, startLine |-> 1, pos |-> 0, start |-> 0,
     atEOF |-> FALSE]

----------------------------------------------------------------------------
(* Items and the channel *)

\* item{t, l.start, l.input[l.start:l.pos], l.startLine}, the value emit sends
emitItem(lx, t) ==
    [typ |-> t, pos |-> lx.start, val |-> Slice(lx.input, lx.start, lx.pos),
     line |-> lx.startLine]

\* fmt.Sprintf(format) with no arguments: the message, kept as a one-element text
Sprintf(format) == <<format>>

\* item{itemError, l.start, fmt.Sprintf(format, args...), l.startLine}
errorItem(lx, format) ==
    [typ |-> itemError, pos |-> lx.start, val |-> Sprintf(format),
     line |-> lx.startLine]

\* item{}: what a receive from a closed, empty channel yields
ZeroItem == [typ |-> 0, pos |-> 0, val |-> <<>>, line |-> 0]

\* l.items <- it: the value joins the channel; the sender stays in the send
\* while more than QueueCap values wait in it
chansend(q, it) == Append(q, it)
sendBlocked_buffered(q) == Len(q) > QueueCap + 1
sendBlocked(q) == Len(q) > QueueCap

chanrecv_peek(q) == [val |-> Head(q), q |-> q]
\* <-l.items on a channel that holds a value
chanrecv(q) == [val |-> Head(q), q |-> Tail(q)]

rangeDone_empty(q, isClosed) == q = <<>>
\* for range l.items ends when the channel is closed and empty
rangeDone(q, isClosed) == isClosed /\ q = <<>>

----------------------------------------------------------------------------
(* State functions.  Each returns what the call does up to its next channel *)
(* send or its return: the lexer struct, the act ("return", "emit" or       *)
(* "errorf"), the item sent, and the state to go on with.  A tail call      *)
(* `return f(lex)` passes control to f exactly as `return f` does through   *)
(* the loop of run(), so it is a return of f.  A state of the form f_n is   *)
(* the point of f at source line n, where f resumes after an emit.          *)

Return(lx, s) == [l |-> lx, act |-> "return", state |-> s, item |-> ZeroItem]
Emit(lx, t, s) == [l |-> lx, act |-> "emit", state |-> s, item |-> emitItem(lx, t)]

errorf_goesOn(lx, format) ==
    [l |-> lx, act |-> "errorf", state |-> "lexRootFn", item |-> errorItem(lx, format)]

\* errorf sends the error item and returns nil
errorf(lx, format) ==
    [l |-> lx, act |-> "errorf", state |-> "nil", item |-> errorItem(lx, format)]

lexRootFn(lx) ==
    IF lexer_eof(lx) THEN Return(lx, "nil")
    ELSE LET sp == acceptSpace(lx) IN
    IF sp.ok THEN Return(acceptRun(sp.l, <<" ", "\n", "\t">>), "lexRootFn")
    ELSE LET bc == acceptString(sp.l, <<"/", "*">>) IN
    IF bc.ok THEN Return(bc.l, "lexBlockCommentFn")
    ELSE LET lc == acceptString(bc.l, <<"/", "/">>) IN
    IF lc.ok THEN Return(lc.l, "lexLineCommentFn")
    ELSE LET pp == acceptRune(lc.l, "#") IN
    IF pp.ok THEN Return(pp.l, "lexEatLineFn")
    ELSE LET kw == acceptKeyword(pp.l, namespace) IN
    IF kw.ok THEN Emit(kw.l, itemNamespace, "lexNamespaceFn")
    ELSE errorf(kw.l, "Expected namespace")

\* lines 314-319, after emit(itemIdentifier)
lexNamespaceFn_314(lx) ==
    LET ob == acceptRune(lx, "{") IN
    IF ob.ok THEN Emit(ob.l, itemOpenBrace, "lexBlockFn")
    ELSE errorf(ob.l, "Badly formed namespace")

lexNamespaceFn(lx) ==
    LET ob == acceptRune(lx, "{") IN
    IF ob.ok THEN Emit(ob.l, itemOpenBrace, "lexBlockFn")
    ELSE LET id == acceptIdentifier(ob.l) IN
    IF id.ok THEN Emit(id.l, itemIdentifier, "lexNamespaceFn_314")
    ELSE errorf(id.l, "Badly formed namespace")

\* lines 332-336
lexBlockFn_332(lx) ==
    LET ob == acceptRune(lx, "{") IN
    IF ~ob.ok THEN errorf(ob.l, "Badly formed struct")
    ELSE Emit(ob.l, itemOpenBrace, "lexStruct")

\* lines 329-336, after emit(itemStruct)
lexBlockFn_329(lx) ==
    LET id == acceptIdentifier(lx) IN
    IF id.ok THEN Emit(id.l, itemIdentifier, "lexBlockFn_332")
    ELSE lexBlockFn_332(id.l)

\* lines 344-348, after emit(itemIdentifier)
lexBlockFn_344(lx) ==
    LET ob == acceptRune(lx, "{") IN
    IF ~ob.ok THEN errorf(ob.l, "Badly formed class")
    ELSE Emit(ob.l, itemOpenBrace, "lexClass")

\* lines 340-348, after emit(itemClass)
lexBlockFn_340(lx) ==
    LET id == acceptIdentifier(lx) IN
    IF ~id.ok THEN errorf(id.l, "Anonymous classes are illegal.")
    ELSE Emit(id.l, itemIdentifier, "lexBlockFn_344")

\* lines 356-360, after emit(itemIdentifier)
lexBlockFn_356(lx) ==
    LET ob == acceptRune(lx, "{") IN
    IF ~ob.ok THEN errorf(ob.l, "Badly formed enum")
    ELSE Emit(ob.l, itemOpenBrace, "lexEnum")

\* lines 352-360, after emit(itemEnum)
lexBlockFn_352(lx) ==
    LET id == acceptIdentifier(lx) IN
    IF ~id.ok THEN errorf(id.l, "Anonymous enums are illegal.")
    ELSE Emit(id.l, itemIdentifier, "lexBlockFn_356")

lexBlockFn(lx) ==
    LET ns == acceptKeyword(lx, namespace) IN
    IF ns.ok THEN Emit(ns.l, itemNamespace, "lexNamespaceFn")
    ELSE LET st == acceptKeyword(ns.l, struct) IN
    IF st.ok THEN Emit(st.l, itemStruct, "lexBlockFn_329")
    ELSE LET cl == acceptKeyword(st.l, class) IN
    IF cl.ok THEN Emit(cl.l, itemClass, "lexBlockFn_340")
    ELSE LET en == acceptKeyword(cl.l, enum) IN
    IF en.ok THEN Emit(en.l, itemEnum, "lexBlockFn_352")
    ELSE errorf(en.l, "Expected namespace, struct, class, or enum.")

lexLineCommentFn(lx) ==
    IF lexer_eof(lx) THEN Return(lx, "nil")
    ELSE LET nl == accept(lx, <<"\n">>) IN
    IF nl.ok THEN Return(nl.l, "lexRootFn")
    ELSE Return(nl.l, "lexLineCommentFn")

lexEatLineFn(lx) ==
    IF lexer_eof(lx) THEN Return(lx, "nil")
    ELSE LET nl == accept(lx, <<"\n">>) IN
    IF nl.ok THEN Return(nl.l, "lexRootFn")
    ELSE Return(nl.l, "lexEatLineFn")

lexBlockCommentFn(lx) ==
    IF lexer_eof(lx) THEN errorf(lx, "Unexpected EOF")
    ELSE LET cl == accept(lx, <<"*", "/">>) IN
    IF cl.ok THEN Return(cl.l, "lexRootFn")
    ELSE Return(cl.l, "lexBlockCommentFn")

\* lexStruct, lexClass and lexEnum live in another file of the package.  A state
\* function either goes on to a next state or reports a terminal error; of
\* these sub-scanners the model keeps the two ways they can end the scan.
lexSubOutcomes(lx) ==
    {errorf(lx, "Badly formed body"), Return(lx, "nil")}

----------------------------------------------------------------------------
(* Input texts *)

RECURSIVE Concat(_)
Concat(fs) == IF fs = <<>> THEN <<>> ELSE Head(fs) \o Concat(Tail(fs))

SeqsUpTo(S, n) == UNION {[1..k -> S] : k \in 0..n}

\* fragments of top-level text
RootFrags ==
    {<<" ">>, <<"\n">>, <<"/">>, <<"*">>, <<"#">>, <<"x">>, <<"{">>, namespace}

\* a header that the root state gets past, and fragments of the block after it
Header == <<"x", "x">> \o namespace \o <<"{">>
BlockFrags == {<<"x">>, <<"{">>, namespace, struct, class, enum}

\* text after a scanned namespace keyword: names, braces, a nested namespace
\* and a letter outside ASCII
Keyword == <<"x", "x">> \o namespace
eAcute == <<"0xC3", "0xA9">>
HeaderFrags == {<<" ">>, <<"x">>, <<"{">>, <<"}">>, namespace, eAcute}

RootInputs == {Concat(fs) : fs \in SeqsUpTo(RootFrags, MaxFrags)}
BlockInputs == {Header \o Concat(fs) : fs \in SeqsUpTo(BlockFrags, MaxBlockFrags)}
HeaderInputs == {Keyword \o Concat(fs) : fs \in SeqsUpTo(HeaderFrags, MaxHeaderFrags)}
Inputs == RootInputs \cup BlockInputs \cup HeaderInputs

OpsFrags == {<<"\n">>, <<"x">>, <<"/">>, namespace, eAcute}
OpsInputs == {Concat(fs) : fs \in SeqsUpTo(OpsFrags, MaxOpsFrags)}

----------------------------------------------------------------------------
(* lex(): the lexer is built and `go l.run()` starts the scanner at lexRootFn *)

NoCall == [op |-> "none", ok |-> FALSE, r |-> "", pre |-> lex(<<>>)]

InitWith(texts) ==
    /\ l \in {lex(input) : input \in texts}
    /\ items = <<>>
    /\ closed = FALSE
    /\ pc = "run"
    /\ state = "lexRootFn"
    /\ pushed = <<>>
    /\ cpc = "idle"
    /\ received = <<>>
    /\ discarded = 0
    /\ closedReads = 0
    /\ drained = FALSE
    /\ call = NoCall

Init == InitWith(Inputs)

consumerVars == <<cpc, received, discarded, closedReads, drained>>

----------------------------------------------------------------------------
(* The scanner goroutine: run() *)

\* state = state(l), up to the state function's next send or its return
Do(o) ==
    /\ l' = o.l
    /\ state' = o.state
    /\ IF o.act = "return"
       THEN pc' = "run" /\ UNCHANGED <<items, pushed>>
       ELSE /\ pc' = o.act
            /\ items' = chansend(items, o.item)
            /\ pushed' = Append(pushed, o.item)
    /\ UNCHANGED <<closed, consumerVars, call>>

run_lexRootFn == pc = "run" /\ state = "lexRootFn" /\ Do(lexRootFn(l))

run_lexNamespaceFn ==
    /\ pc = "run"
    /\ \/ state = "lexNamespaceFn" /\ Do(lexNamespaceFn(l))
       \/ state = "lexNamespaceFn_314" /\ Do(lexNamespaceFn_314(l))

run_lexBlockFn ==
    /\ pc = "run"
    /\ state \in {"lexBlockFn", "lexBlockFn_329", "lexBlockFn_332", "lexBlockFn_340",
                  "lexBlockFn_344", "lexBlockFn_352", "lexBlockFn_356"}
    /\ Do(CASE state = "lexBlockFn" -> lexBlockFn(l)
            [] state = "lexBlockFn_329" -> lexBlockFn_329(l)
            [] state = "lexBlockFn_332" -> lexBlockFn_332(l)
            [] state = "lexBlockFn_340" -> lexBlockFn_340(l)
            [] state = "lexBlockFn_344" -> lexBlockFn_344(l)
            [] state = "lexBlockFn_352" -> lexBlockFn_352(l)
            [] state = "lexBlockFn_356" -> lexBlockFn_356(l))

run_lexLineCommentFn ==
    pc = "run" /\ state = "lexLineCommentFn" /\ Do(lexLineCommentFn(l))

run_lexEatLineFn == pc = "run" /\ state = "lexEatLineFn" /\ Do(lexEatLineFn(l))

run_lexBlockCommentFn ==
    pc = "run" /\ state = "lexBlockCommentFn" /\ Do(lexBlockCommentFn(l))

run_lexSub ==
    /\ pc = "run"
    /\ state \in {"lexStruct", "lexClass", "lexEnum"}
    /\ \E o \in lexSubOutcomes(l) : Do(o)

\* the send of emit is over: l.start = l.pos, l.startLine = l.line
\* emit whose bookkeeping reads what the consumer is doing
emit_sharedStart ==
    /\ pc = "emit"
    /\ ~sendBlocked(items)
    /\ l' = [l EXCEPT !.start = IF cpc = "drain" THEN @ ELSE l.pos,
                      !.startLine = l.line]
    /\ pc' = "run"
    /\ UNCHANGED <<items, closed, state, pushed, consumerVars, call>>

emit_keepsStartLine ==
    /\ pc = "emit"
    /\ ~sendBlocked(items)
    /\ l' = [l EXCEPT !.start = l.pos]
    /\ pc' = "run"
    /\ UNCHANGED <<items, closed, state, pushed, consumerVars, call>>

emit ==
    /\ pc = "emit"
    /\ ~sendBlocked(items)
    /\ l' = [l EXCEPT !.start = l.pos, !.startLine = l.line]
    /\ pc' = "run"
    /\ UNCHANGED <<items, closed, state, pushed, consumerVars, call>>

\* the send of errorf is over: errorf returns
errorf_return ==
    /\ pc = "errorf"
    /\ ~sendBlocked(items)
    /\ pc' = "run"
    /\ UNCHANGED <<l, items, closed, state, pushed, consumerVars, call>>

\* state == nil: the loop of run() ends, close(l.items)
run_close ==
    /\ pc = "run"
    /\ state = "nil"
    /\ closed' = TRUE
    /\ pc' = "done"
    /\ UNCHANGED <<l, items, state, pushed, consumerVars, call>>

Scanner ==
    \/ run_lexRootFn
    \/ run_lexNamespaceFn
    \/ run_lexBlockFn
    \/ run_lexLineCommentFn
    \/ run_lexEatLineFn
    \/ run_lexBlockCommentFn
    \/ run_lexSub
    \/ emit
    \/ errorf_return
    \/ run_close

----------------------------------------------------------------------------
(* The consumer: the parser's calls of nextItem and drain *)

nextItem_call ==
    /\ cpc = "idle"
    /\ closedReads < MaxClosedReads
    /\ cpc' = "nextItem"
    /\ UNCHANGED <<l, items, closed, pc, state, pushed, received, discarded,
                   closedReads, drained, call>>

\* return <-l.items
nextItem ==
    /\ cpc = "nextItem"
    /\ \/ /\ items # <<>>
          /\ received' = Append(received, chanrecv(items).val)
          /\ items' = chanrecv(items).q
          /\ UNCHANGED closedReads
       \/ /\ items = <<>>
          /\ closed
          /\ received' = Append(received, ZeroItem)
          /\ closedReads' = closedReads + 1
          /\ UNCHANGED items
    /\ cpc' = "idle"
    /\ UNCHANGED <<l, closed, pc, state, pushed, discarded, drained, call>>

drain_call ==
    /\ cpc = "idle"
    /\ ~drained
    /\ cpc' = "drain"
    /\ UNCHANGED <<l, items, closed, pc, state, pushed, received, discarded,
                   closedReads, drained, call>>

\* for range l.items {}: one value taken and dropped
drain_range ==
    /\ cpc = "drain"
    /\ items # <<>>
    /\ items' = chanrecv(items).q
    /\ discarded' = discarded + 1
    /\ UNCHANGED <<l, closed, pc, state, pushed, cpc, received, closedReads,
                   drained, call>>

drain_return ==
    /\ cpc = "drain"
    /\ rangeDone(items, closed)
    /\ cpc' = "idle"
    /\ drained' = TRUE
    /\ UNCHANGED <<l, items, closed, pc, state, pushed, received, discarded,
                   closedReads, call>>

Consumer ==
    \/ nextItem_call
    \/ nextItem
    \/ drain_call
    \/ drain_range
    \/ drain_return

Next == Scanner \/ Consumer

Spec == Init /\ [][Next]_vars

----------------------------------------------------------------------------
(* The helpers called one at a time, in any order, on a fresh lexer *)

InitOps == InitWith(OpsInputs)

opsFrame == <<items, closed, pc, state, pushed, consumerVars>>

\* a call that returns a rune
RuneCall(name, res) ==
    /\ l' = res.l
    /\ call' = [op |-> name, ok |-> FALSE, r |-> res.r, pre |-> l]
    /\ UNCHANGED opsFrame

\* a call that returns a bool
BoolCall(name, res) ==
    /\ l' = res.l
    /\ call' = [op |-> name, ok |-> res.ok, r |-> "", pre |-> l]
    /\ UNCHANGED opsFrame

\* a call that returns nothing
VoidCall(name, lx) ==
    /\ l' = lx
    /\ call' = [op |-> name, ok |-> FALSE, r |-> "", pre |-> l]
    /\ UNCHANGED opsFrame

ValidSets == {<<" ", "\t", "\n">>, <<"*", "/">>, <<"\n">>}
ExpectedRunes == {"#", "{", "\n", "x"}
ExpectedStrings == {<<"/", "*">>, <<"/", "/">>, <<"x", "\n">>, namespace}
Keywords == {namespace, <<"x">>, <<"x", "\n">>}

op_next == RuneCall("next", next(l))
op_peek == RuneCall("peek", peek(l))
op_backup == VoidCall("backup", backup(l))
op_backupMultiple == \E count \in 0..MaxCount : VoidCall("backupMultiple", backupMultiple(l, count))
op_accept == \E valid \in ValidSets : BoolCall("accept", accept(l, valid))
op_acceptAlphaNumeric == BoolCall("acceptAlphaNumeric", acceptAlphaNumeric(l))
op_acceptRun == \E valid \in ValidSets : VoidCall("acceptRun", acceptRun(l, valid))
op_acceptSpace == BoolCall("acceptSpace", acceptSpace(l))
op_acceptRune == \E expected \in ExpectedRunes : BoolCall("acceptRune", acceptRune(l, expected))
op_acceptString == \E s \in ExpectedStrings : BoolCall("acceptString", acceptString(l, s))
op_acceptIdentifier == BoolCall("acceptIdentifier", acceptIdentifier(l))
op_acceptKeyword == \E keyword \in Keywords : BoolCall("acceptKeyword", acceptKeyword(l, keyword))

NextOps ==
    \/ op_next
    \/ op_peek
    \/ op_backup
    \/ op_backupMultiple
    \/ op_accept
    \/ op_acceptAlphaNumeric
    \/ op_acceptRun
    \/ op_acceptSpace
    \/ op_acceptRune
    \/ op_acceptString
    \/ op_acceptIdentifier
    \/ op_acceptKeyword

SpecOps == InitOps /\ [][NextOps]_vars

----------------------------------------------------------------------------
(* Operators the properties are stated with *)

Last(s) == s[Len(s)]

StartsWith(s, prefix) ==
    Len(s) >= Len(prefix) /\ SubSeq(s, 1, Len(prefix)) = prefix

IsSpace(r) == r \in {" ", "\t", "\n"}

\* the text after its leading spaces, tabs and newlines
RECURSIVE TrimLeft(_)
TrimLeft(s) ==
    IF s # <<>> /\ IsSpace(Head(s)) THEN TrimLeft(Tail(s)) ELSE s

\* the offset just past the first newline at or after offset p, or the length
RECURSIVE LineEnd(_, _)
LineEnd(s, p) ==
    IF p >= Len(s) THEN Len(s)
    ELSE IF s[p + 1] = "\n" THEN p + 1
    ELSE LineEnd(s, p + 1)

\* the offset just past the first "*/" that begins at or after offset p,
\* or -1 when there is none
RECURSIVE CommentEnd(_, _)
CommentEnd(s, p) ==
    IF p + 2 > Len(s) THEN -1
    ELSE IF s[p + 1] = "*" /\ s[p + 2] = "/" THEN p + 2
    ELSE CommentEnd(s, p + 1)

\* the call run() makes in state s
stateFn(s, lx) ==
    CASE s = "lexRootFn" -> lexRootFn(lx)
      [] s = "lexNamespaceFn" -> lexNamespaceFn(lx)
      [] s = "lexBlockFn" -> lexBlockFn(lx)
      [] s = "lexLineCommentFn" -> lexLineCommentFn(lx)
      [] s = "lexEatLineFn" -> lexEatLineFn(lx)
      [] s = "lexBlockCommentFn" -> lexBlockCommentFn(lx)

StateFns == {"lexRootFn", "lexNamespaceFn", "lexBlockFn", "lexLineCommentFn",
             "lexEatLineFn", "lexBlockCommentFn"}

InSend == pc \in {"emit", "errorf"}
NoErrorPushed == \A i \in 1..Len(pushed) : pushed[i].typ # itemError

\* the items nextItem took from the queue, not counting the answers of the
\* closed queue
Taken == SubSeq(received, 1, Len(received) - closedReads)

----------------------------------------------------------------------------
(* C1: the scanner leaves its state machine and closes the queue; no state *)
(* function is re-entered without the scan position advancing: a state     *)
(* function that returns itself has moved pos forward.  (A state function  *)
(* is a function of the lexer struct alone, so one that returns itself     *)
(* with pos unmoved is called again in the same state, without end.)       *)
C1_NoReentryWithoutProgress ==
    (pc = "run" /\ state \in StateFns) =>
        LET o == stateFn(state, l)
        IN (o.act = "return" /\ o.state = state) => o.l.pos > l.pos

(* C2: an error item is the last item pushed, there is at most one, and    *)
(* once it is pushed the scanner is in errorf's send, or at state nil      *)
(* about to close, or has closed the queue.                                *)
C2_ErrorIsLast ==
    \A i \in 1..Len(pushed) :
        pushed[i].typ = itemError =>
            /\ i = Len(pushed)
            /\ state = "nil"
            /\ \/ pc = "errorf"
               \/ pc = "run" /\ ~closed
               \/ pc = "done" /\ closed

C2_Witness ==
    /\ Len(pushed) >= 2
    /\ Last(pushed).typ = itemError
    /\ pushed[1].typ = itemNamespace
    /\ closed

(* C3: the items nextItem returned while the queue was open are a prefix   *)
(* of the items the scanner pushed, in the same order.                     *)
C3_Fifo ==
    /\ Len(Taken) <= Len(pushed)
    /\ \A i \in 1..Len(Taken) : Taken[i] = pushed[i]

C3_Witness ==
    /\ Len(Taken) >= 2
    /\ Taken[1].typ = itemNamespace
    /\ Taken[2].typ = itemOpenBrace
    /\ Len(pushed) > Len(Taken)

(* C4: a stream that ends without an error item has an itemEOF item as its *)
(* last pushed item.                                                       *)
C4_EndsWithEOF ==
    (closed /\ NoErrorPushed) =>
        (pushed # <<>> /\ Last(pushed).typ = itemEOF)

(* C5: while the consumer is in drain a scanner waiting in a send can be   *)
(* received from; when drain has returned the scanner has closed the       *)
(* queue and every pushed item was taken, by nextItem or by drain.         *)
C5_Drain ==
    /\ (InSend /\ sendBlocked(items) /\ cpc = "drain") => ENABLED drain_range
    /\ drained =>
        /\ closed
        /\ pc = "done"
        /\ items = <<>>
        /\ Len(pushed) = Len(Taken) + discarded

C5_Witness ==
    /\ drained
    /\ Len(Taken) >= 1
    /\ discarded >= 2

\* sends that are over: every value pushed but the one the scanner still
\* waits on in its send
SendsDone == Len(pushed) - (IF InSend /\ sendBlocked(items) THEN 1 ELSE 0)

(* C6: the sends that are over are as many as the items the consumer took; *)
(* the scanner changes no lexer field while an item is untaken; a nextItem *)
(* call returns only when an item is offered or the queue is closed.       *)
C6_Backpressure ==
    /\ [](SendsDone = Len(Taken) + discarded)
    /\ [][l' # l => items = <<>>]_vars
    /\ [][(cpc = "nextItem" /\ cpc' # "nextItem") => (items # <<>> \/ closed)]_vars

C6_Witness ==
    /\ pc = "emit"
    /\ sendBlocked(items)
    /\ Len(pushed) >= 2
    /\ cpc = "nextItem"

(* C7: after any sequence of helper calls line is 1 plus the number of     *)
(* newlines in input[0:pos], and a backup that steps back over a newline   *)
(* takes exactly one from line.                                            *)
C7_LineTracking ==
    /\ [](l.line = 1 + CountNewlines(Slice(l.input, 0, l.pos)))
    /\ [][(call'.op = "backup" /\ l'.pos < l.pos /\ l.input[l.pos] = "\n")
            => l'.line = l.line - 1]_vars

C7_Witness ==
    /\ call.op = "backup"
    /\ call.pre.pos = l.pos + 1
    /\ l.input[l.pos + 1] = "\n"
    /\ l.line >= 2

(* C8: for an input of optional whitespace, the keyword namespace and an   *)
(* opening brace, the first item pushed is the namespace keyword item.     *)
C8_NamespaceFirst ==
    (TrimLeft(l.input) = namespace \o <<"{">> /\ pushed # <<>>) =>
        pushed[1].typ = itemNamespace

(* C9: for a text that begins with a preprocessor line or a // comment, no *)
(* item is pushed for a character of that line, and the root state is      *)
(* resumed only past the end of the line.                                  *)
C9_LineDiscarded ==
    (StartsWith(l.input, <<"#">>) \/ StartsWith(l.input, <<"/", "/">>)) =>
        /\ \A i \in 1..Len(pushed) : pushed[i].pos >= LineEnd(l.input, 0)
        /\ (pc = "run" /\ state = "lexRootFn" /\ l.pos > 0)
              => l.pos >= LineEnd(l.input, 0)

(* C10: for a text that begins with a block comment, the root state is     *)
(* resumed only past the first following "*/", and no item is pushed for   *)
(* the comment.                                                            *)
C10_BlockComment ==
    StartsWith(l.input, <<"/", "*">>) =>
        LET end == CommentEnd(l.input, 2)
        IN /\ (pc = "run" /\ state = "lexRootFn" /\ l.pos > 0)
                 => (end # -1 /\ l.pos >= end)
           /\ end # -1 => \A i \in 1..Len(pushed) : pushed[i].pos >= end

\* the text holds sub somewhere
Contains(s, sub) ==
    \E p \in 0..(Len(s) - Len(sub)) : SubSeq(s, p + 1, p + Len(sub)) = sub

IsError(it, format) == it.typ = itemError /\ it.val = Sprintf(format)

(* C11: for a text that opens a block comment in root state and has no     *)
(* closing star-slash after it, the only item the scanner pushes is the    *)
(* error item "Unexpected EOF", and it has pushed it when it closes the    *)
(* queue.                                                                  *)
C11_UnterminatedComment ==
    (StartsWith(l.input, <<"/", "*">>) /\ CommentEnd(l.input, 2) = -1) =>
        /\ \A i \in 1..Len(pushed) : IsError(pushed[i], "Unexpected EOF")
        /\ closed => pushed # <<>>

(* C12: for a text with no namespace keyword in it (the empty text and     *)
(* texts of whitespace, comments or preprocessor lines among them), the    *)
(* scanner closes the queue only after pushing an error item as its last   *)
(* item.                                                                   *)
C12_NoNamespaceIsError ==
    (~Contains(l.input, namespace) /\ closed) =>
        pushed # <<>> /\ Last(pushed).typ = itemError

\* the text is a namespace header followed by keyword kw and an open brace
AnonymousAfterHeader(kw) == StartsWith(l.input, Header \o kw \o <<"{">>)

(* C13: in block state, after the two items of the namespace header, a     *)
(* class or enum keyword followed by an open brace yields the error item   *)
(* "Anonymous classes are illegal." or "Anonymous enums are illegal."      *)
(* (directly or after the keyword item), and a struct or namespace keyword *)
(* followed by an open brace yields the keyword item and then the          *)
(* open-brace item.                                                        *)
C13_AnonymousBlocks ==
    /\ \A c \in {<<class, itemClass, "Anonymous classes are illegal.">>,
                 <<enum, itemEnum, "Anonymous enums are illegal.">>} :
        (AnonymousAfterHeader(c[1]) /\ Len(pushed) >= 3) =>
            \/ IsError(pushed[3], c[3])
            \/ /\ pushed[3].typ = c[2]
               /\ Len(pushed) >= 4 => IsError(pushed[4], c[3])
    /\ \A c \in {<<struct, itemStruct>>, <<namespace, itemNamespace>>} :
        (AnonymousAfterHeader(c[1]) /\ Len(pushed) >= 3) =>
            /\ pushed[3].typ = c[2]
            /\ Len(pushed) >= 4 => pushed[4].typ = itemOpenBrace

\* the offset of the first rune at or after offset p that is no space
RECURSIVE SkipSpaces(_, _)
SkipSpaces(s, p) ==
    IF p < Len(s) /\ IsSpace(s[p + 1]) THEN SkipSpaces(s, p + 1) ELSE p

\* the offset just past the letters, digits and underscores that begin at p
RECURSIVE WordEnd(_, _)
WordEnd(s, p) ==
    IF p < Len(s) /\ isAlphaNumeric(s[p + 1]) THEN WordEnd(s, p + 1) ELSE p

ItemEnd(it) == it.pos + Len(it.val)

\* after offset e the text goes on with spaces, a name, and an open brace
NamedHeaderAt(s, e) ==
    LET a == SkipSpaces(s, e)
        b == WordEnd(s, a)
        c == SkipSpaces(s, b)
    IN a > e /\ b > a /\ c < Len(s) /\ s[c + 1] = "{"

HeaderName(s, e) == Slice(s, SkipSpaces(s, e), WordEnd(s, SkipSpaces(s, e)))

(* C14: when a namespace, struct or class keyword item is pushed and the   *)
(* text after it is whitespace, a name and an open brace, the next item    *)
(* pushed is the identifier item whose text is the name, and the one after *)
(* it is the open-brace item.                                              *)
C14_NamedHeader ==
    \A i \in 1..Len(pushed) :
        (/\ pushed[i].typ \in {itemNamespace, itemStruct, itemClass}
         /\ NamedHeaderAt(l.input, ItemEnd(pushed[i]))) =>
            /\ Len(pushed) > i =>
                /\ pushed[i + 1].typ = itemIdentifier
                /\ pushed[i + 1].val = HeaderName(l.input, ItemEnd(pushed[i]))
            /\ Len(pushed) > i + 1 => pushed[i + 2].typ = itemOpenBrace

(* C15: when the open brace of a namespace is followed at once by a close  *)
(* brace, the item pushed after the open-brace item is the close-brace     *)
(* item, not an error item.                                                *)
C15_EmptyNamespace ==
    \A i \in 1..Len(pushed) :
        (/\ pushed[i].typ = itemNamespace
         /\ Len(pushed) > i + 1
         /\ pushed[i + 1].typ = itemOpenBrace
         /\ ItemEnd(pushed[i + 1]) < Len(l.input)
         /\ l.input[ItemEnd(pushed[i + 1]) + 1] = "}") =>
            /\ pushed[i + 2].typ = itemCloseBrace
            /\ pushed[i + 2].val = <<"}">>

\* the text of a keyword or brace item, by its type
Lexemes ==
    {<<itemNamespace, namespace>>, <<itemStruct, struct>>,
     <<itemClass, class>>, <<itemEnum, enum>>,
     <<itemOpenBrace, <<"{">> >>, <<itemCloseBrace, <<"}">> >>}

(* C16: every pushed item that is no error item has as val the text at its *)
(* pos, a keyword or brace item has exactly its keyword or brace as val,   *)
(* and no val holds whitespace.                                            *)
C16_ExactLexeme ==
    \A i \in 1..Len(pushed) :
        pushed[i].typ # itemError =>
            /\ pushed[i].val = Slice(l.input, pushed[i].pos, ItemEnd(pushed[i]))
            /\ \A x \in Lexemes : pushed[i].typ = x[1] => pushed[i].val = x[2]
            /\ \A j \in 1..Len(pushed[i].val) : ~IsSpace(pushed[i].val[j])

\* the helpers that answer whether they matched
Acceptors == {"accept", "acceptRune", "acceptSpace", "acceptAlphaNumeric",
              "acceptIdentifier", "acceptString", "acceptKeyword"}

\* the last helper call left pos and line as they were on entry
CallRestored == l.pos = call.pre.pos /\ l.line = call.pre.line

(* C17: peek always, and the accept helpers whenever they return false,    *)
(* leave pos and line as they were on entry; acceptString(s) returns true  *)
(* exactly when the text at pos starts with s, and then pos has advanced   *)
(* by len(s).                                                              *)
C17_Lookahead ==
    /\ call.op = "peek" => CallRestored
    /\ (call.op \in Acceptors /\ ~call.ok) => CallRestored
    /\ \A s \in ExpectedStrings :
        LET res == acceptString(l, s)
        IN /\ res.ok <=> StartsWith(Slice(l.input, l.pos, Len(l.input)), s)
           /\ res.ok => res.l.pos = l.pos + Len(s)

(* C18: every pushed item, token or error, has as line 1 plus the number   *)
(* of newlines in the text before its pos.                                 *)
C18_ItemLine ==
    \A i \in 1..Len(pushed) :
        pushed[i].line = 1 + CountNewlines(Slice(l.input, 0, pushed[i].pos))

\* an item that begins after a newline has been pushed
C18_Witness ==
    \E i \in 1..Len(pushed) : pushed[i].pos > 0 /\ pushed[i].line > 1

\* the lexer struct after each acceptKeyword call lexBlockFn makes, up to
\* the first that returns true
lexBlockFnSteps(lx) ==
    LET ns == acceptKeyword(lx, namespace)
        st == acceptKeyword(ns.l, struct)
        cl == acceptKeyword(st.l, class)
        en == acceptKeyword(cl.l, enum)
    IN {ns.l} \cup (IF ns.ok THEN {} ELSE
       {st.l} \cup (IF st.ok THEN {} ELSE
       {cl.l} \cup (IF cl.ok THEN {} ELSE {en.l})))

InBounds(lx) == lx.start <= lx.pos /\ lx.pos <= Len(lx.input)

\* the pushed items that are no error items
Tokens == SelectSeq(pushed, LAMBDA it : it.typ # itemError)

\* the token items lie end to end from offset 0, each the text at its pos
TokensTile ==
    \A i \in 1..Len(Tokens) :
        /\ Tokens[i].pos = IF i = 1 THEN 0 ELSE ItemEnd(Tokens[i - 1])
        /\ Tokens[i].val = Slice(l.input, Tokens[i].pos, ItemEnd(Tokens[i]))

(* C19: start <= pos <= len(input) in every scanner state, between state   *)
(* functions and after each keyword test inside lexBlockFn; and the pushed *)
(* items that are no error items tile a prefix of the text: the first has  *)
(* pos 0, each next one begins where the one before ends, and val is the   *)
(* text at pos.                                                            *)
C19_Spans ==
    /\ InBounds(l)
    /\ (pc = "run" /\ state = "lexBlockFn") =>
           \A lx \in lexBlockFnSteps(l) : InBounds(lx)
    /\ TokensTile

(* C20: while the scanner has pushed no error item, no item that nextItem  *)
(* has returned, before or after the queue was closed, has the type        *)
(* itemError.                                                              *)
C20_ErrorOnlyFromErrorf ==
    NoErrorPushed =>
        \A i \in 1..Len(received) : received[i].typ # itemError

\* the call run() makes in state s, the points inside a state function
\* where it goes on after a send included
stateFnAt(s, lx) ==
    CASE s \in StateFns -> stateFn(s, lx)
      [] s = "lexNamespaceFn_314" -> lexNamespaceFn_314(lx)
      [] s = "lexBlockFn_329" -> lexBlockFn_329(lx)
      [] s = "lexBlockFn_332" -> lexBlockFn_332(lx)
      [] s = "lexBlockFn_340" -> lexBlockFn_340(lx)
      [] s = "lexBlockFn_344" -> lexBlockFn_344(lx)
      [] s = "lexBlockFn_352" -> lexBlockFn_352(lx)
      [] s = "lexBlockFn_356" -> lexBlockFn_356(lx)

\* the lexer struct once the send of emit is over
AfterSend(lx) == [lx EXCEPT !.start = lx.pos, !.startLine = lx.line]

\* the state functions whose code is not at hand
MissingFns == {"lexStruct", "lexClass", "lexEnum"}

\* run() of the scanner alone, with every send taken at once: the items it
\* pushes from state s on, and how it ends: "close" at state nil, "loop"
\* where a state function returns itself with the lexer unchanged,
\* "missing" where it enters a state function whose code is not at hand
RECURSIVE ScanFrom(_, _)
ScanFrom(s, lx) ==
    IF s = "nil" THEN [items |-> <<>>, end |-> "close"]
    ELSE IF s \in MissingFns THEN [items |-> <<>>, end |-> "missing"]
    ELSE LET o == stateFnAt(s, lx) IN
         IF o.act = "return"
         THEN IF o.state = s /\ o.l = lx
              THEN [items |-> <<>>, end |-> "loop"]
              ELSE ScanFrom(o.state, o.l)
         ELSE LET rest == ScanFrom(o.state,
                                   IF o.act = "emit" THEN AfterSend(o.l) ELSE o.l)
              IN [items |-> <<o.item>> \o rest.items, end |-> rest.end]

Scan(input) == ScanFrom("lexRootFn", lex(input))

IsPrefix(s, t) == Len(s) <= Len(t) /\ SubSeq(t, 1, Len(s)) = s

(* C21: the items the scanner pushes are a function of the text alone:     *)
(* whatever the consumer does and however the two are interleaved, every   *)
(* step that pushes an item leaves the items pushed so far equal to the    *)
(* first items of Scan(input), with the same type, text, offset and line,  *)
(* and the step that closes the queue is taken when they are all of them   *)
(* and Scan(input) ends by closing too.  (Past the entry into lexStruct,   *)
(* lexClass or lexEnum only the items up to the entry are compared.)       *)
C21_Deterministic ==
    [][(pushed' # pushed \/ closed' # closed) =>
        LET ref == Scan(l.input)
        IN IF ref.end = "missing"
           THEN IsPrefix(pushed', ref.items) \/ IsPrefix(ref.items, pushed')
           ELSE /\ IsPrefix(pushed', ref.items)
                /\ closed' => pushed' = ref.items /\ ref.end = "close"]_vars

\* a scan of two items or more has closed the queue after the consumer took
\* an item with nextItem and then went over to drain
C21_Witness ==
    /\ closed
    /\ Len(pushed) >= 2
    /\ pushed = Scan(l.input).items
    /\ Taken # <<>>
    /\ discarded > 0

====
